---- MODULE Spec2Model ----
(***************************************************************************)
(* Black-Scholes pricing engine (src/src/black_scholes.py) and the sweep   *)
(* of the dashboard that calls it (src/app.py).                            *)
(*                                                                         *)
(* Numbers are floating-point values: a finite value m * 10^e with a       *)
(* significand of Prec decimal digits, or +inf, -inf, NaN, with the        *)
(* special-value rules of IEEE-754 arithmetic as numpy applies them        *)
(* (overflow gives inf, inf*0 and inf-inf give NaN, x/0 gives inf, 0/0     *)
(* gives NaN, every comparison with NaN is false).  The double precision   *)
(* of the program (about 16 digits) is reduced to Prec digits; the decimal *)
(* exponent range is that of a double.                                     *)
(***************************************************************************)
EXTENDS Integers, Sequences, FiniteSets

\* ------------------------------------------------------------------ floats

\* Significand digits of a finite value.
Prec == 4
\* 10^MaxExp10 is the largest power of ten a double holds (DBL_MAX ~ 1.8e308).
MaxExp10 == 308
\* 10^-MinExp10 is below every positive double (smallest subnormal ~ 4.9e-324).
MinExp10 == 324

AbsI(n) == IF n < 0 THEN 0 - n ELSE n
SgnI(n) == IF n < 0 THEN -1 ELSE IF n = 0 THEN 0 ELSE 1

NDigits[a \in Nat] == IF a < 10 THEN 1 ELSE 1 + NDigits[a \div 10]

\* The floating-point values.
Num == [k : {"fin", "inf", "nan"}, m : Int, e : Int]

Zero == [k |-> "fin", m |-> 0, e |-> 0]
PInf == [k |-> "inf", m |-> 1, e |-> 0]
NInf == [k |-> "inf", m |-> -1, e |-> 0]
NaN  == [k |-> "nan", m |-> 0, e |-> 0]

IsNaN(a) == a.k = "nan"
IsInf(a) == a.k = "inf"
IsFin(a) == a.k = "fin"
InfOf(s) == IF s < 0 THEN NInf ELSE PInf

\* The float m * 10^e of a significand of at most Prec digits: overflow to
\* +/-inf, underflow to 0.
Finite[m \in Int, e \in Int] ==
    IF e + Prec - 1 > MaxExp10 THEN InfOf(m)
    ELSE IF e + Prec - 1 < 0 - MinExp10 THEN Zero
    ELSE [k |-> "fin", m |-> m, e |-> e]

\* s * q * 10^e for q <= 10^Prec: a rounding that carried into digit Prec + 1
\* is renormalised.
Carry[s \in Int, q \in Nat, e \in Int] ==
    IF q = 10^Prec THEN Finite[s * 10^(Prec - 1), e + 1] ELSE Finite[s * q, e]

\* m * 10^e with the last k digits of m rounded away (half away from zero),
\* padded with zeros when k is negative.
RoundDigits[m \in Int, e \in Int, k \in Int] ==
    IF k > 0 THEN Carry[SgnI(m), (AbsI(m) + (10^k) \div 2) \div (10^k), e + k]
    ELSE Finite[m * 10^(0 - k), e + k]

\* The float nearest to m * 10^e: significand rounded to Prec digits, overflow
\* to +/-inf, underflow to 0.
Round[m \in Int, e \in Int] ==
    IF m = 0 THEN Zero ELSE RoundDigits[m, e, NDigits[AbsI(m)] - Prec]

\* The float of a decimal literal m e<e>, and of an integer.
Dec(m, e) == Round[m, e]
FromInt(n) == Round[n, 0]

Neg[a \in Num] == IF IsNaN(a) THEN NaN ELSE [a EXCEPT !.m = 0 - a.m]

\* -1, 0, 1 as a < b, a = b, a > b, for a and b not NaN.
Cmp[a \in Num, b \in Num] ==
    IF IsInf(a) \/ IsInf(b)
    THEN SgnI((IF IsInf(a) THEN a.m ELSE 0) - (IF IsInf(b) THEN b.m ELSE 0))
    ELSE IF SgnI(a.m) # SgnI(b.m) THEN SgnI(SgnI(a.m) - SgnI(b.m))
    ELSE IF a.m = 0 THEN 0
    ELSE IF a.e # b.e THEN SgnI(a.m) * SgnI(a.e - b.e)
    ELSE SgnI(a.m - b.m)

Lt[a \in Num, b \in Num] == ~IsNaN(a) /\ ~IsNaN(b) /\ Cmp[a, b] < 0
Le[a \in Num, b \in Num] == ~IsNaN(a) /\ ~IsNaN(b) /\ Cmp[a, b] <= 0
Gt[a \in Num, b \in Num] == Lt[b, a]
Ge[a \in Num, b \in Num] == Le[b, a]
Eq[a \in Num, b \in Num] == ~IsNaN(a) /\ ~IsNaN(b) /\ Cmp[a, b] = 0

\* hi + lo for finite nonzero values with hi.e >= lo.e: lo is below the
\* rounding of hi when the exponents are more than Prec + 1 apart.
AddAligned[hi \in Num, lo \in Num] ==
    IF hi.e - lo.e > Prec + 1 THEN hi
    ELSE Round[hi.m * 10^(hi.e - lo.e) + lo.m, lo.e]

Add[a \in Num, b \in Num] ==
    IF IsNaN(a) \/ IsNaN(b) THEN NaN
    ELSE IF IsInf(a) /\ IsInf(b) THEN (IF a.m = b.m THEN a ELSE NaN)
    ELSE IF IsInf(a) THEN a
    ELSE IF IsInf(b) THEN b
    ELSE IF a.m = 0 THEN b
    ELSE IF b.m = 0 THEN a
    ELSE IF a.e >= b.e THEN AddAligned[a, b]
    ELSE AddAligned[b, a]

Sub[a \in Num, b \in Num] == Add[a, Neg[b]]

Mul[a \in Num, b \in Num] ==
    IF IsNaN(a) \/ IsNaN(b) THEN NaN
    ELSE IF IsInf(a) \/ IsInf(b)
         THEN (IF a.m = 0 \/ b.m = 0 THEN NaN ELSE InfOf(SgnI(a.m) * SgnI(b.m)))
    ELSE Round[a.m * b.m, a.e + b.e]

\* numpy division: x/0 is +/-inf, 0/0 is NaN.
Div[a \in Num, b \in Num] ==
    IF IsNaN(a) \/ IsNaN(b) THEN NaN
    ELSE IF IsInf(a) THEN (IF IsInf(b) THEN NaN
                           ELSE InfOf(a.m * (IF b.m < 0 THEN -1 ELSE 1)))
    ELSE IF IsInf(b) THEN Zero
    ELSE IF b.m = 0 THEN (IF a.m = 0 THEN NaN ELSE InfOf(a.m))
    ELSE Round[SgnI(a.m) * SgnI(b.m) * ((AbsI(a.m) * 10^(Prec + 1)) \div AbsI(b.m)),
               a.e - b.e - (Prec + 1)]

Abs[a \in Num] == IF IsNaN(a) THEN NaN ELSE [a EXCEPT !.m = AbsI(a.m)]

\* Python's max(a, b): the first argument unless the second is greater.
Max[a \in Num, b \in Num] == IF Gt[b, a] THEN b ELSE a

IsFinite(a) == IsFin(a)

\* ------------------------------------------------- numpy / scipy functions

One  == [k |-> "fin", m |-> 10^(Prec - 1), e |-> 1 - Prec]
Two  == [k |-> "fin", m |-> 2 * 10^(Prec - 1), e |-> 1 - Prec]
Half == [k |-> "fin", m |-> 5 * 10^(Prec - 1), e |-> 0 - Prec]
Ln10 == [k |-> "fin", m |-> 2303, e |-> -3]
Log10E == [k |-> "fin", m |-> 4343, e |-> -4]
InvSqrt2Pi == [k |-> "fin", m |-> 3989, e |-> -4]

\* The integer r with r*r <= n < (r+1)*(r+1), given lo*lo <= n < hi*hi.
ISqrtBetween[n \in Nat, lo \in Nat, hi \in Nat] ==
    IF hi - lo <= 1 THEN lo
    ELSE IF ((lo + hi) \div 2) * ((lo + hi) \div 2) <= n
         THEN ISqrtBetween[n, (lo + hi) \div 2, hi]
         ELSE ISqrtBetween[n, lo, (lo + hi) \div 2]

\* The square root of m * 10^e for m > 0 and e even.
SqrtEven[m \in Nat, e \in Int] ==
    Round[ISqrtBetween[m * 10^Prec, 0, 46340], (e \div 2) - (Prec \div 2)]

\* np.sqrt: NaN for a negative argument.
Sqrt[a \in Num] ==
    IF IsNaN(a) THEN NaN
    ELSE IF a.m < 0 THEN NaN
    ELSE IF IsInf(a) THEN PInf
    ELSE IF a.m = 0 THEN Zero
    ELSE IF a.e % 2 = 1 THEN SqrtEven[a.m * 10, a.e - 1]
    ELSE SqrtEven[a.m, a.e]

\* The integer nearest to the finite value y, for |y| < 10^Prec.
NearestInt[y \in Num] ==
    IF y.m = 0 THEN 0
    ELSE IF y.e >= 0 THEN y.m * 10^y.e
    ELSE IF 0 - y.e > Prec + 1 THEN 0
    ELSE SgnI(y.m) * ((AbsI(y.m) + (10^(0 - y.e)) \div 2) \div 10^(0 - y.e))

\* acc + sum for j >= n of u^j / j!, given term = u^n / n!.
ExpSeries[u \in Num, n \in Nat, term \in Num, acc \in Num] ==
    IF n > 3 * Prec THEN acc
    ELSE ExpSeries[u, n + 1, Div[Mul[term, u], FromInt(n + 1)], Add[acc, term]]

\* y * 10^n
Scale10[y \in Num, n \in Int] == IF IsFin(y) THEN Round[y.m, y.e + n] ELSE y

\* e^x = 10^n * e^(x - n ln 10)
ExpReduced[x \in Num, n \in Int] ==
    Scale10[ExpSeries[Sub[x, Mul[FromInt(n), Ln10]], 0, One, Zero], n]

\* np.exp: overflow gives +inf, underflow 0.
Exp[x \in Num] ==
    IF IsNaN(x) THEN NaN
    ELSE IF IsInf(x) THEN (IF x.m > 0 THEN PInf ELSE Zero)
    ELSE IF x.m > 0 /\ x.e > 0 THEN PInf
    ELSE IF x.m < 0 /\ x.e > 0 THEN Zero
    ELSE ExpReduced[x, NearestInt[Mul[x, Log10E]]]

\* acc + sum for odd j >= n of z^j / j, given pow = z^n and zz = z*z.
AtanhSeries[zz \in Num, n \in Nat, pow \in Num, acc \in Num] ==
    IF n > 6 * Prec THEN acc
    ELSE AtanhSeries[zz, n + 2, Mul[pow, zz], Add[acc, Div[pow, FromInt(n)]]]

Atanh[z \in Num] == AtanhSeries[Mul[z, z], 1, z, Zero]

\* ln(w * 10^E) = E ln 10 + 2 atanh((w-1)/(w+1))
LogScaled[w \in Num, E \in Int] ==
    Add[Mul[FromInt(E), Ln10], Mul[Two, Atanh[Div[Sub[w, One], Add[w, One]]]]]

\* np.log: -inf at 0, NaN below 0; the argument is scaled to w in
\* [0.316, 3.16].
Log[x \in Num] ==
    IF IsNaN(x) THEN NaN
    ELSE IF x.m < 0 THEN NaN
    ELSE IF IsInf(x) THEN PInf
    ELSE IF x.m = 0 THEN NInf
    ELSE IF x.m > 3162 THEN LogScaled[[x EXCEPT !.e = 0 - Prec], x.e + Prec]
    ELSE LogScaled[[x EXCEPT !.e = 1 - Prec], x.e + Prec - 1]

\* scipy.stats.norm.pdf: exp(-x^2/2) / sqrt(2 pi).
NormPdf[x \in Num] ==
    IF IsNaN(x) THEN NaN
    ELSE Mul[Exp[Neg[Div[Mul[x, x], Two]]], InvSqrt2Pi]

\* The polynomial of Abramowitz-Stegun 26.2.17 at t.
TailPoly[t \in Num] ==
    Mul[t, Add[Dec(3194, -4),
    Mul[t, Add[Dec(-3566, -4),
    Mul[t, Add[Dec(1781, -3),
    Mul[t, Add[Dec(-1821, -3),
    Mul[t, Dec(1330, -3)]]]]]]]]]

\* The upper tail 1 - Phi(a) for a >= 0 finite: pdf(a) * poly(1/(1 + p a)).
UpperTail[a \in Num] ==
    Mul[NormPdf[a], TailPoly[Div[One, Add[One, Mul[Dec(2316, -4), a]]]]]

\* Phi(x) from the upper tail at |x|.
FromTail[x \in Num, tail \in Num] == IF x.m < 0 THEN tail ELSE Sub[One, tail]

\* scipy.stats.norm.cdf: 0 at -inf, 1 at +inf, NaN at NaN.
NormCdf[x \in Num] ==
    IF IsNaN(x) THEN NaN
    ELSE IF IsInf(x) THEN (IF x.m > 0 THEN One ELSE Zero)
    ELSE FromTail[x, UpperTail[Abs[x]]]

\* ------------------------------------------------------- black_scholes.py

\* The literal 1e-10 of the edge-case tests.
Eps == Dec(1, -10)

\* What a call ends in: a returned value, or a raised ValueError with its message.
None == [k |-> "none", m |-> 0, e |-> 0]
Return(v) == [raised |-> FALSE, msg |-> "", val |-> v]
Raise(msg) == [raised |-> TRUE, msg |-> msg, val |-> None]

\* check_inputs with the test of T written T < 0.
check_inputs_T_negative_only(S, K, T, r, sigma) ==
    IF Le[S, Zero] THEN "Asset price must be positive."
    ELSE IF Le[K, Zero] THEN "Strike price must be positive."
    ELSE IF Lt[T, Zero] THEN "Time must be positive."
    ELSE IF Le[sigma, Zero] THEN "Volatility must be positive"
    ELSE ""

\* check_inputs with the tests of S and K in the other order.
check_inputs_K_first(S, K, T, r, sigma) ==
    IF Le[K, Zero] THEN "Strike price must be positive."
    ELSE IF Le[S, Zero] THEN "Asset price must be positive."
    ELSE IF Le[T, Zero] THEN "Time must be positive."
    ELSE IF Le[sigma, Zero] THEN "Volatility must be positive"
    ELSE ""

\* The message of the ValueError check_inputs raises, "" when it raises none.
check_inputs(S, K, T, r, sigma) ==
    IF Le[S, Zero] THEN "Asset price must be positive."
    ELSE IF Le[K, Zero] THEN "Strike price must be positive."
    ELSE IF Le[T, Zero] THEN "Time must be positive."
    ELSE IF Le[sigma, Zero] THEN "Volatility must be positive"
    ELSE ""

\* d1 with the small-volatility test written S >= K.
d1_tie_plus(S, K, T, r, sigma) ==
    IF Le[T, Eps]
    THEN (IF Gt[S, K] THEN PInf ELSE IF Lt[S, K] THEN NInf ELSE Zero)
    ELSE IF Le[Abs[Mul[sigma, Sqrt[T]]], Eps]
    THEN (IF Ge[S, K] THEN PInf ELSE NInf)
    ELSE Div[Add[Log[Div[S, K]], Mul[Add[r, Mul[Half, Mul[sigma, sigma]]], T]],
             Mul[sigma, Sqrt[T]]]

d1(S, K, T, r, sigma) ==
    IF Le[T, Eps]
    THEN (IF Gt[S, K] THEN PInf ELSE IF Lt[S, K] THEN NInf ELSE Zero)
    ELSE IF Le[Abs[Mul[sigma, Sqrt[T]]], Eps]
    THEN (IF Gt[S, K] THEN PInf ELSE NInf)
    ELSE Div[Add[Log[Div[S, K]], Mul[Add[r, Mul[Half, Mul[sigma, sigma]]], T]],
             Mul[sigma, Sqrt[T]]]

d2(S, K, T, r, sigma) == Sub[d1(S, K, T, r, sigma), Mul[sigma, Sqrt[T]]]

\* K * np.exp(-r * T)
Discounted(K, T, r) == Mul[K, Exp[Mul[Neg[r], T]]]

\* call_price with the near-expiry value S - K, not floored at 0.
call_price_unfloored(S, K, T, r, sigma) ==
    LET err == check_inputs(S, K, T, r, sigma)
    IN  IF err # "" THEN Raise(err)
        ELSE IF Le[T, Eps] THEN Return(Sub[S, K])
        ELSE LET d1_val == d1(S, K, T, r, sigma)
                 d2_val == d2(S, K, T, r, sigma)
             IN  Return(Sub[Mul[S, NormCdf[d1_val]],
                            Mul[Discounted(K, T, r), NormCdf[d2_val]]])

call_price(S, K, T, r, sigma) ==
    LET err == check_inputs(S, K, T, r, sigma)
    IN  IF err # "" THEN Raise(err)
        ELSE IF Le[T, Eps] THEN Return(Max[Zero, Sub[S, K]])
        ELSE LET d1_val == d1(S, K, T, r, sigma)
                 d2_val == d2(S, K, T, r, sigma)
             IN  Return(Sub[Mul[S, NormCdf[d1_val]],
                            Mul[Discounted(K, T, r), NormCdf[d2_val]]])

\* put_price with the near-expiry value of the call, max(0, S - K).
put_price_call_payoff(S, K, T, r, sigma) ==
    LET err == check_inputs(S, K, T, r, sigma)
    IN  IF err # "" THEN Raise(err)
        ELSE IF Le[T, Eps] THEN Return(Max[Zero, Sub[S, K]])
        ELSE LET d1_val == d1(S, K, T, r, sigma)
                 d2_val == d2(S, K, T, r, sigma)
             IN  Return(Sub[Mul[Discounted(K, T, r), NormCdf[Neg[d2_val]]],
                            Mul[S, NormCdf[Neg[d1_val]]]])

put_price(S, K, T, r, sigma) ==
    LET err == check_inputs(S, K, T, r, sigma)
    IN  IF err # "" THEN Raise(err)
        ELSE IF Le[T, Eps] THEN Return(Max[Zero, Sub[K, S]])
        ELSE LET d1_val == d1(S, K, T, r, sigma)
                 d2_val == d2(S, K, T, r, sigma)
             IN  Return(Sub[Mul[Discounted(K, T, r), NormCdf[Neg[d2_val]]],
                            Mul[S, NormCdf[Neg[d1_val]]]])

\* call_delta with the near-expiry test written S >= K.
call_delta_tie_one(S, K, T, r, sigma) ==
    LET err == check_inputs(S, K, T, r, sigma)
    IN  IF err # "" THEN Raise(err)
        ELSE IF Le[T, Eps] THEN (IF Ge[S, K] THEN Return(One) ELSE Return(Zero))
        ELSE Return(NormCdf[d1(S, K, T, r, sigma)])

call_delta(S, K, T, r, sigma) ==
    LET err == check_inputs(S, K, T, r, sigma)
    IN  IF err # "" THEN Raise(err)
        ELSE IF Le[T, Eps] THEN (IF Gt[S, K] THEN Return(One) ELSE Return(Zero))
        ELSE Return(NormCdf[d1(S, K, T, r, sigma)])

\* -(S * pdf(d1) * sigma) / (2 * sqrt(T)), the term the two thetas share.
ThetaDecay(S, T, sigma, d1_val) ==
    Div[Neg[Mul[Mul[S, NormPdf[d1_val]], sigma]], Mul[Two, Sqrt[T]]]

call_theta(S, K, T, r, sigma) ==
    LET err == check_inputs(S, K, T, r, sigma)
    IN  IF err # "" THEN Raise(err)
        ELSE IF Le[T, Eps] THEN Return(Zero)
        ELSE LET d1_val == d1(S, K, T, r, sigma)
                 d2_val == d2(S, K, T, r, sigma)
             IN  Return(Sub[ThetaDecay(S, T, sigma, d1_val),
                            Mul[Mul[Mul[r, K], Exp[Mul[Neg[r], T]]], NormCdf[d2_val]]])

call_rho(S, K, T, r, sigma) ==
    LET err == check_inputs(S, K, T, r, sigma)
    IN  IF err # "" THEN Raise(err)
        ELSE IF Le[T, Eps] THEN Return(Zero)
        ELSE LET d2_val == d2(S, K, T, r, sigma)
             IN  Return(Mul[Mul[Mul[K, T], Exp[Mul[Neg[r], T]]], NormCdf[d2_val]])

\* put_delta with the closed form written 1 - cdf(d1).
put_delta_complement(S, K, T, r, sigma) ==
    LET err == check_inputs(S, K, T, r, sigma)
    IN  IF err # "" THEN Raise(err)
        ELSE IF Le[T, Eps] THEN (IF Lt[S, K] THEN Return(Neg[One]) ELSE Return(Zero))
        ELSE Return(Sub[One, NormCdf[d1(S, K, T, r, sigma)]])

put_delta(S, K, T, r, sigma) ==
    LET err == check_inputs(S, K, T, r, sigma)
    IN  IF err # "" THEN Raise(err)
        ELSE IF Le[T, Eps] THEN (IF Lt[S, K] THEN Return(Neg[One]) ELSE Return(Zero))
        ELSE Return(Sub[NormCdf[d1(S, K, T, r, sigma)], One])

put_theta(S, K, T, r, sigma) ==
    LET err == check_inputs(S, K, T, r, sigma)
    IN  IF err # "" THEN Raise(err)
        ELSE IF Le[T, Eps] THEN Return(Zero)
        ELSE LET d1_val == d1(S, K, T, r, sigma)
                 d2_val == d2(S, K, T, r, sigma)
             IN  Return(Add[ThetaDecay(S, T, sigma, d1_val),
                            Mul[Mul[Mul[r, K], Exp[Mul[Neg[r], T]]],
                                NormCdf[Neg[d2_val]]]])

put_rho(S, K, T, r, sigma) ==
    LET err == check_inputs(S, K, T, r, sigma)
    IN  IF err # "" THEN Raise(err)
        ELSE IF Le[T, Eps] THEN Return(Zero)
        ELSE LET d2_val == d2(S, K, T, r, sigma)
             IN  Return(Mul[Mul[Mul[Neg[K], T], Exp[Mul[Neg[r], T]]],
                            NormCdf[Neg[d2_val]]])

\* gamma without its near-expiry return.
gamma_no_expiry_return(S, K, T, r, sigma) ==
    LET err == check_inputs(S, K, T, r, sigma)
    IN  IF err # "" THEN Raise(err)
        ELSE LET d1_val == d1(S, K, T, r, sigma)
             IN  Return(Div[NormPdf[d1_val], Mul[Mul[S, sigma], Sqrt[T]]])

gamma(S, K, T, r, sigma) ==
    LET err == check_inputs(S, K, T, r, sigma)
    IN  IF err # "" THEN Raise(err)
        ELSE IF Le[T, Eps] THEN Return(Zero)
        ELSE LET d1_val == d1(S, K, T, r, sigma)
             IN  Return(Div[NormPdf[d1_val], Mul[Mul[S, sigma], Sqrt[T]]])

vega(S, K, T, r, sigma) ==
    LET err == check_inputs(S, K, T, r, sigma)
    IN  IF err # "" THEN Raise(err)
        ELSE IF Le[T, Eps] THEN Return(Zero)
        ELSE LET d1_val == d1(S, K, T, r, sigma)
             IN  Return(Mul[Mul[S, NormPdf[d1_val]], Sqrt[T]])

\* ------------------------------------------------------------ the callers

VARIABLES
    pc,         \* "idle", "returned" (an engine call ended), "sweep", "done", "error"
    fn,         \* the engine function called, "app" for a dashboard run
    args,       \* the (S, K, T, r, sigma) of the call or of the dashboard run
    ret,        \* what the engine call ended in
    metrics,    \* app.py: the ten values of lines 38-49
    idx,        \* app.py: index of the next point of S_range
    call_vals,  \* app.py: call prices of the sweep so far
    put_vals,   \* app.py: put prices of the sweep so far
    app_error   \* app.py: the message handed to st.error

vars == <<pc, fn, args, ret, metrics, idx, call_vals, put_vals, app_error>>

\* The parameter values callers pass: invalid ones (negative, zero), values at
\* and around the thresholds 0 and 1e-10, ordinary ones and extreme rates.
SValues == {FromInt(-1), Zero, FromInt(90), FromInt(100), FromInt(110)}
KValues == {FromInt(-1), Zero, FromInt(100), Dec(1, 6)}
TValues == {FromInt(-1), Zero, Dec(1, -12), Dec(1, -10), Dec(2, -10), One}
rValues == {Dec(-1, 3), Dec(-5, -2), Zero, Dec(5, -2)}
sigmaValues == {Dec(-2, -1), Zero, Dec(1, -11), Dec(2, -1)}

Inputs == [S : SValues, K : KValues, T : TValues, r : rValues, sigma : sigmaValues]

Valid(a) == /\ Gt[a.S, Zero] /\ Gt[a.K, Zero] /\ Gt[a.T, Zero] /\ Gt[a.sigma, Zero]
ValidInputs == {a \in Inputs : Valid(a)}

NoArgs == [S |-> Zero, K |-> Zero, T |-> Zero, r |-> Zero, sigma |-> Zero]
NoMetrics == <<>>

Init ==
    /\ pc = "idle"
    /\ fn = "none"
    /\ args = NoArgs
    /\ ret = Return(None)
    /\ metrics = NoMetrics
    /\ idx = 0
    /\ call_vals = <<>>
    /\ put_vals = <<>>
    /\ app_error = ""

\* An idle caller invokes engine function f on a; the call ends in result.
Call(f, a, result) ==
    /\ pc' = "returned"
    /\ fn' = f
    /\ args' = a
    /\ ret' = result
    /\ UNCHANGED <<metrics, idx, call_vals, put_vals, app_error>>

CallCallPrice ==
    /\ pc = "idle"
    /\ \E a \in Inputs : Call("call_price", a, call_price(a.S, a.K, a.T, a.r, a.sigma))
CallPutPrice ==
    /\ pc = "idle"
    /\ \E a \in Inputs : Call("put_price", a, put_price(a.S, a.K, a.T, a.r, a.sigma))
CallCallDelta ==
    /\ pc = "idle"
    /\ \E a \in Inputs : Call("call_delta", a, call_delta(a.S, a.K, a.T, a.r, a.sigma))
CallCallTheta ==
    /\ pc = "idle"
    /\ \E a \in Inputs : Call("call_theta", a, call_theta(a.S, a.K, a.T, a.r, a.sigma))
CallCallRho ==
    /\ pc = "idle"
    /\ \E a \in Inputs : Call("call_rho", a, call_rho(a.S, a.K, a.T, a.r, a.sigma))
CallPutDelta ==
    /\ pc = "idle"
    /\ \E a \in Inputs : Call("put_delta", a, put_delta(a.S, a.K, a.T, a.r, a.sigma))
CallPutTheta ==
    /\ pc = "idle"
    /\ \E a \in Inputs : Call("put_theta", a, put_theta(a.S, a.K, a.T, a.r, a.sigma))
CallPutRho ==
    /\ pc = "idle"
    /\ \E a \in Inputs : Call("put_rho", a, put_rho(a.S, a.K, a.T, a.r, a.sigma))
CallGamma ==
    /\ pc = "idle"
    /\ \E a \in Inputs : Call("gamma", a, gamma(a.S, a.K, a.T, a.r, a.sigma))
CallVega ==
    /\ pc = "idle"
    /\ \E a \in Inputs : Call("vega", a, vega(a.S, a.K, a.T, a.r, a.sigma))

\* d1 and d2 are helpers of the ten functions, which validate before they use
\* them: they are evaluated on validated parameters only.
EvalD1 ==
    /\ pc = "idle"
    /\ \E a \in ValidInputs : Call("d1", a, Return(d1(a.S, a.K, a.T, a.r, a.sigma)))
EvalD2 ==
    /\ pc = "idle"
    /\ \E a \in ValidInputs : Call("d2", a, Return(d2(a.S, a.K, a.T, a.r, a.sigma)))

\* The engine calls of app.py lines 38-49, in the order of the script, each
\* with what it ends in (the functions are pure: a call has no effect on the
\* next).
AppCall(a) ==
    << call_price(a.S, a.K, a.T, a.r, a.sigma),
       put_price(a.S, a.K, a.T, a.r, a.sigma),
       call_delta(a.S, a.K, a.T, a.r, a.sigma),
       call_theta(a.S, a.K, a.T, a.r, a.sigma),
       call_rho(a.S, a.K, a.T, a.r, a.sigma),
       put_delta(a.S, a.K, a.T, a.r, a.sigma),
       put_theta(a.S, a.K, a.T, a.r, a.sigma),
       put_rho(a.S, a.K, a.T, a.r, a.sigma),
       gamma(a.S, a.K, a.T, a.r, a.sigma),
       vega(a.S, a.K, a.T, a.r, a.sigma) >>

\* The calls the script makes: it stops at the first call that raises.
AppCalls(calls) ==
    LET raising == {j \in 1..Len(calls) : calls[j].raised}
    IN  IF raising = {} THEN calls
        ELSE SubSeq(calls, 1, CHOOSE j \in raising : \A i \in raising : j <= i)

\* Number of points of the sweep (np.linspace(S * .5, S * 1.5, 50)).
NumPoints == 50

\* Element i (from 0) of np.linspace(S * .5, S * 1.5, NumPoints).
S_range(S, i) ==
    LET start == Mul[S, Dec(5, -1)]
        stop  == Mul[S, Dec(15, -1)]
        step  == Div[Sub[stop, start], FromInt(NumPoints - 1)]
    IN  IF i = NumPoints - 1 THEN stop ELSE Add[Mul[FromInt(i), step], start]

\* A run of the script computes the ten values (kept in metrics with what
\* each call ended in); a ValueError ends the run in st.error (lines 103-104).
AppCompute ==
    /\ pc = "idle"
    /\ \E a \in Inputs :
       \E calls \in {AppCall(a)} :
         /\ fn' = "app"
         /\ args' = a
         /\ metrics' = AppCalls(calls)
    /\ pc' = IF metrics'[Len(metrics')].raised THEN "error" ELSE "sweep"
    /\ app_error' = metrics'[Len(metrics')].msg
    /\ UNCHANGED <<ret, idx, call_vals, put_vals>>

\* One iteration of the loop of lines 87-89.
AppSweepStep ==
    /\ pc = "sweep"
    /\ idx < NumPoints
    /\ \E s \in {S_range(args.S, idx)} :
       \E c \in {call_price(s, args.K, args.T, args.r, args.sigma)} :
       \E p \in {put_price(s, args.K, args.T, args.r, args.sigma)} :
           IF c.raised \/ p.raised
           THEN /\ pc' = "error"
                /\ app_error' = IF c.raised THEN c.msg ELSE p.msg
                /\ UNCHANGED <<idx, call_vals, put_vals>>
           ELSE /\ call_vals' = Append(call_vals, c.val)
                /\ put_vals' = Append(put_vals, p.val)
                /\ idx' = idx + 1
                /\ pc' = IF idx + 1 = NumPoints THEN "done" ELSE "sweep"
                /\ UNCHANGED app_error
    /\ UNCHANGED <<fn, args, ret, metrics>>

\* The caller drops what the call or the run produced.
Discard ==
    /\ pc \in {"returned", "done", "error"}
    /\ pc' = "idle"
    /\ fn' = "none"
    /\ args' = NoArgs
    /\ ret' = Return(None)
    /\ metrics' = NoMetrics
    /\ idx' = 0
    /\ call_vals' = <<>>
    /\ put_vals' = <<>>
    /\ app_error' = ""

Next ==
    \/ CallCallPrice \/ CallPutPrice
    \/ CallCallDelta \/ CallCallTheta \/ CallCallRho
    \/ CallPutDelta \/ CallPutTheta \/ CallPutRho
    \/ CallGamma \/ CallVega
    \/ EvalD1 \/ EvalD2
    \/ AppCompute \/ AppSweepStep \/ Discard

Spec == Init /\ [][Next]_vars

\* ----------------------------------------------------------------- claims

\* The ten public functions, in the order app.py calls them.
FnName == << "call_price", "put_price", "call_delta", "call_theta", "call_rho",
             "put_delta", "put_theta", "put_rho", "gamma", "vega" >>
PublicFns == {FnName[j] : j \in 1..Len(FnName)}

\* The engine calls a state shows with what they ended in: the call of an
\* outside caller, or the calls a dashboard run has made for its ten values.
Calls ==
    IF pc = "returned" /\ fn \in PublicFns
    THEN {[f |-> fn, a |-> args, res |-> ret]}
    ELSE IF fn = "app"
    THEN {[f |-> FnName[j], a |-> args, res |-> metrics[j]] : j \in 1..Len(metrics)}
    ELSE {}

\* The result of function f in a dashboard run that computed its ten values.
Metric(f) == metrics[CHOOSE j \in 1..Len(FnName) : FnName[j] = f].val
AppComputed == fn = "app" /\ Len(metrics) = Len(FnName)

NearExpiry(a) == Valid(a) /\ Le[a.T, Eps]
SmallVol(a) == Valid(a) /\ Gt[a.T, Eps] /\ Le[Mul[a.sigma, Sqrt[a.T]], Eps]
ClosedForm(a) == Valid(a) /\ Gt[a.T, Eps] /\ Gt[Mul[a.sigma, Sqrt[a.T]], Eps]

\* C1: each of the ten functions raises the invalid-parameter error and returns
\* no value when S <= 0 or K <= 0 or T <= 0 or sigma <= 0, and raises nothing
\* when S, K, T and sigma are all positive, whatever r is.
C1_ValidationDecidesRaise ==
    \A c \in Calls :
        /\ (Le[c.a.S, Zero] \/ Le[c.a.K, Zero] \/ Le[c.a.T, Zero] \/ Le[c.a.sigma, Zero])
              => (c.res.raised /\ c.res.val = None)
        /\ (Gt[c.a.S, Zero] /\ Gt[c.a.K, Zero] /\ Gt[c.a.T, Zero] /\ Gt[c.a.sigma, Zero])
              => (~c.res.raised /\ c.res.val # None)

\* A call of put_rho with T = 0 and the other parameters valid raised.
C1_Witness ==
    \E c \in Calls :
        /\ c.f = "put_rho" /\ c.a.T = Zero
        /\ Gt[c.a.S, Zero] /\ Gt[c.a.K, Zero] /\ Gt[c.a.sigma, Zero] /\ Lt[c.a.r, Zero]
        /\ c.res.raised

\* The field an error message names.
ErrorField(msg) ==
    CASE msg = "Asset price must be positive." -> "S"
      [] msg = "Strike price must be positive." -> "K"
      [] msg = "Time must be positive." -> "T"
      [] msg = "Volatility must be positive" -> "sigma"
      [] OTHER -> "?"

\* The first field of a, in the order S, K, T, sigma, that violates its constraint.
FirstViolated(a) ==
    IF Le[a.S, Zero] THEN "S"
    ELSE IF Le[a.K, Zero] THEN "K"
    ELSE IF Le[a.T, Zero] THEN "T"
    ELSE IF Le[a.sigma, Zero] THEN "sigma"
    ELSE "none"

\* C2: a rejected call raises one error, whose message names a field (each field
\* has its own message): the first violated field in the order S, K, T, sigma.
C2_ErrorNamesFirstViolatedField ==
    \A c \in Calls : c.res.raised => ErrorField(c.res.msg) = FirstViolated(c.a)

\* A call with all four fields invalid raised the error of S.
C2_Witness ==
    \E c \in Calls :
        /\ Le[c.a.S, Zero] /\ Le[c.a.K, Zero] /\ Le[c.a.T, Zero] /\ Le[c.a.sigma, Zero]
        /\ c.res.raised /\ ErrorField(c.res.msg) = "S"

\* C3: for valid inputs with 0 < T <= 1e-10, call_price returns max(0, S - K)
\* and put_price returns max(0, K - S), whatever r and sigma are.
C3_IntrinsicPrices ==
    \A c \in Calls :
        NearExpiry(c.a) =>
            /\ c.f = "call_price" =>
                  c.res = Return(IF Gt[c.a.S, c.a.K] THEN Sub[c.a.S, c.a.K] ELSE Zero)
            /\ c.f = "put_price" =>
                  c.res = Return(IF Gt[c.a.K, c.a.S] THEN Sub[c.a.K, c.a.S] ELSE Zero)

\* A dashboard run with T = 1e-12, S = 110, K = 100 got call 10.0 and put 0.0.
C3_Witness ==
    /\ AppComputed
    /\ args.T = Dec(1, -12) /\ args.S = FromInt(110) /\ args.K = FromInt(100)
    /\ Metric("call_price") = FromInt(10)
    /\ Metric("put_price") = Zero

\* C4: for valid inputs with 0 < T <= 1e-10, call_delta returns 1.0 if S > K
\* and 0.0 otherwise, put_delta returns -1.0 if S < K and 0.0 otherwise; at the
\* money both return 0.0.
C4_ExpiryDeltas ==
    \A c \in Calls :
        NearExpiry(c.a) =>
            /\ c.f = "call_delta" =>
                  c.res = Return(IF Gt[c.a.S, c.a.K] THEN One ELSE Zero)
            /\ c.f = "put_delta" =>
                  c.res = Return(IF Lt[c.a.S, c.a.K] THEN Neg[One] ELSE Zero)
            /\ (c.f \in {"call_delta", "put_delta"} /\ Eq[c.a.S, c.a.K]) =>
                  c.res = Return(Zero)

\* A dashboard run at the money with T = 1e-12 got 0.0 for both deltas.
C4_Witness ==
    /\ AppComputed
    /\ args.T = Dec(1, -12) /\ args.S = FromInt(100) /\ args.K = FromInt(100)
    /\ Metric("call_delta") = Zero
    /\ Metric("put_delta") = Zero

\* C5: for valid inputs with 0 < T <= 1e-10, gamma, vega, call_theta, put_theta,
\* call_rho and put_rho return 0.0, whatever S, K, r and sigma are.
C5_ExpiryGreeksZero ==
    \A c \in Calls :
        (NearExpiry(c.a)
           /\ c.f \in {"gamma", "vega", "call_theta", "put_theta", "call_rho", "put_rho"})
        => c.res = Return(Zero)

\* A dashboard run with T = 1e-10 and S > K got 0.0 for the six Greeks and 1.0
\* for the call delta.
C5_Witness ==
    /\ AppComputed
    /\ args.T = Eps /\ Gt[args.S, args.K]
    /\ \A f \in {"gamma", "vega", "call_theta", "put_theta", "call_rho", "put_rho"} :
          Metric(f) = Zero
    /\ Metric("call_delta") = One

\* C6: for any input that passes validation each of the ten functions returns
\* a finite number, never +infinity, -infinity or NaN.
C6_ResultsFinite ==
    \A c \in Calls : ~c.res.raised => IsFinite(c.res.val)

\* C9: for every valid input 0 <= call_delta <= 1, -1 <= put_delta <= 0,
\* gamma >= 0 and vega >= 0, in the three branches.
C9_GreekBounds ==
    \A c \in Calls :
        Valid(c.a) =>
            /\ c.f = "call_delta" => (Le[Zero, c.res.val] /\ Le[c.res.val, One])
            /\ c.f = "put_delta" => (Le[Neg[One], c.res.val] /\ Le[c.res.val, Zero])
            /\ c.f \in {"gamma", "vega"} => Ge[c.res.val, Zero]

\* A dashboard run in the closed-form branch got deltas strictly inside their
\* ranges and a positive gamma and vega.
C9_Witness ==
    /\ AppComputed /\ ClosedForm(args)
    /\ Lt[Zero, Metric("call_delta")] /\ Lt[Metric("call_delta"), One]
    /\ Lt[Neg[One], Metric("put_delta")] /\ Lt[Metric("put_delta"), Zero]
    /\ Gt[Metric("gamma"), Zero] /\ Gt[Metric("vega"), Zero]

\* d1 as the three ordered branches describe it.
D1Branches(a) ==
    IF Le[a.T, Eps]
    THEN (IF Gt[a.S, a.K] THEN PInf ELSE IF Lt[a.S, a.K] THEN NInf ELSE Zero)
    ELSE IF Le[Mul[a.sigma, Sqrt[a.T]], Eps]
    THEN (IF Gt[a.S, a.K] THEN PInf ELSE NInf)
    ELSE Div[Add[Log[Div[a.S, a.K]],
                 Mul[Add[a.r, Div[Mul[a.sigma, a.sigma], Two]], a.T]],
             Mul[a.sigma, Sqrt[a.T]]]

\* C10: d1 is +inf, -inf or 0 as S > K, S < K or S = K when T <= 1e-10;
\* otherwise +inf if S > K and -inf if not when sigma*sqrt(T) <= 1e-10;
\* otherwise the closed-form ratio.  d2 is d1 - sigma*sqrt(T), and is the same
\* infinity as d1 when d1 is infinite.
C10_D1Branches ==
    pc = "returned" =>
        /\ fn = "d1" => ret.val = D1Branches(args)
        /\ fn = "d2" =>
              /\ ret.val = Sub[D1Branches(args), Mul[args.sigma, Sqrt[args.T]]]
              /\ IsInf(D1Branches(args)) => ret.val = D1Branches(args)

\* d1 was evaluated at the money in the small-volatility branch and is -inf.
C10_Witness ==
    /\ pc = "returned" /\ fn = "d1"
    /\ SmallVol(args) /\ Eq[args.S, args.K]
    /\ ret.val = NInf

\* The call and put prices a dashboard run holds for the same parameters: the
\* two metrics, and the pair the last sweep step appended for its point of
\* S_range.
PricePairs ==
    (IF AppComputed
     THEN {[a |-> args, call |-> Metric("call_price"), put |-> Metric("put_price")]}
     ELSE {})
    \cup
    (IF fn = "app" /\ Len(call_vals) > 0
     THEN {[a |-> [args EXCEPT !.S = S_range(args.S, Len(call_vals) - 1)],
            call |-> call_vals[Len(call_vals)],
            put |-> put_vals[Len(put_vals)]]}
     ELSE {})

\* e^x - 1, by its series when |x| <= 1 (no cancellation for small x).
Expm1[x \in Num] ==
    IF IsFin(x) /\ Le[Abs[x], One] THEN ExpSeries[x, 1, x, Zero]
    ELSE Sub[Exp[x], One]

\* (call - put) - (S - K e^(-rT)), with S - K e^(-rT) taken as
\* (S - K) - K (e^(-rT) - 1).
ParityGap(p) ==
    Add[Sub[Sub[p.call, p.put], Sub[p.a.S, p.a.K]],
        Mul[p.a.K, Expm1[Mul[Neg[p.a.r], p.a.T]]]]

RoundingTolerance(a) ==
    Mul[Dec(1, 1 - Prec), Add[a.S, Discounted(a.K, a.T, a.r)]]

C8_SweepMonotone ==
    (fn = "app" /\ Len(call_vals) > 0
       /\ \A i \in 1..Len(call_vals) : IsFinite(call_vals[i]) /\ IsFinite(put_vals[i]))
    => \A i \in 1..Len(call_vals) :
          /\ Le[call_vals[i], call_vals[Len(call_vals)]]
          /\ Ge[put_vals[i], put_vals[Len(put_vals)]]

====
